---- MODULE Spec2Model ----
(***************************************************************************)
(* A model of libtest-mimic's `run` (src/src/lib.rs): name filtering, the  *)
(* ignore policy, the sequential and the thread-pool strategy, the single  *)
(* handle_outcome aggregator, and the Conclusion that is returned.         *)
(***************************************************************************)
EXTENDS Integers, Sequences, FiniteSets, TLC

VARIABLES args, input, tests, conclusion, failed_tests, events, pc, idx,
          cur, pool, jobs, running, channel, taken, invoked, on_worker, ret,
          exit_code

vars == <<args, input, tests, conclusion, failed_tests, events, pc, idx,
          cur, pool, jobs, running, channel, taken, invoked, on_worker, ret,
          exit_code>>

(***************************************************************************)
(* Bounds of the model.                                                    *)
(***************************************************************************)
\* Longest list of tests handed to run.
MaxTests == 2
\* Most CPUs of the machine: ThreadPool::default() has a thread for each.
MaxCpus == 3
\* Longest list of --skip patterns in the filter specification.
MaxSkip == 2
\* Longest test name and pattern in the filter specification.
MaxName == 2

(***************************************************************************)
(* Data.  A string is a sequence of characters, so that `contains` is the  *)
(* substring test and not an equality of atoms.                            *)
(***************************************************************************)
\* Option<T>: None is the empty sequence and Some(x) the sequence of x alone.
None == <<>>

Some(x) == <<x>>

Chars == {"a", "b"}

RECURSIVE StringsUpTo(_)
StringsUpTo(n) ==
    IF n = 0 THEN {<<>>}
    ELSE LET shorter == StringsUpTo(n - 1)
         IN  shorter \cup {Append(s, c) : s \in {t \in shorter : Len(t) = n - 1}, c \in Chars}

\* The name the i-th test of a run is given: distinct names, some of which
\* contain others.
NameOf(i) ==
    LET names == <<(<<"a">>), (<<"a", "b">>), (<<"b">>), (<<"b", "a">>)>>
    IN  names[((i - 1) % 4) + 1]

\* What a test's closure does when it is called: Ok, Err(Failed), or a panic.
Runners == {"ok", "fail", "panic"}

\* The message of the Failed the i-th test fails with: Failed::from(msg) at
\* the odd positions, Failed::without_message() at the even ones.
MsgOf(i) == IF i % 2 = 1 THEN Some("boom") ELSE None

\* struct TestInfo (kind is only printed); id is the position in the
\* caller's list and tells apart units the program itself never compares.
Info(t) == [id |-> t.id, name |-> t.name, is_ignored |-> t.is_ignored,
            is_bench |-> t.is_bench]

\* Conclusion::empty
empty ==
    [num_filtered_out |-> 0, num_passed |-> 0, num_failed |-> 0,
     num_ignored |-> 0, num_benches |-> 0]

\* A has_failed that takes an ignored test for a failure.
has_failed_OrIgnored(c) == c.num_failed + c.num_ignored > 0

\* Conclusion::has_failed
has_failed(c) == c.num_failed > 0

\* The exit codes of Conclusion::exit_if_failed and Conclusion::exit.
ExitFailure == 101
ExitSuccess == 0

\* Conclusion::exit_if_failed: the code the process exits with, None when the
\* call returns.
exit_if_failed(c) == IF has_failed(c) THEN Some(ExitFailure) ELSE None

\* Conclusion::exit: exit_if_failed, and then process::exit(0).
exit(c) == IF exit_if_failed(c) # None THEN exit_if_failed(c) ELSE Some(ExitSuccess)

\* str::contains: some window of s equals the pattern p.
Contains(s, p) ==
    \E i \in 0..(Len(s) - Len(p)) : SubSeq(s, i + 1, i + Len(p)) = p

\* An ignore policy that does not look at --ignored.
is_ignored_AlwaysSkipIgnored(a, t) ==
    \/ t.is_ignored
    \/ (t.is_bench /\ a.test)
    \/ (~t.is_bench /\ a.bench)

\* Arguments::is_ignored
is_ignored(a, t) ==
    \/ (t.is_ignored /\ ~a.ignored)
    \/ (t.is_bench /\ a.test)
    \/ (~t.is_bench /\ a.bench)

\* A loop over args.skip that returns after its first pattern.
SkipLoop_FirstOnly(a, name, i) ==
    IF i > Len(a.skip) THEN FALSE
    ELSE IF a.exact /\ name = a.skip[i] THEN TRUE
    ELSE IF ~a.exact /\ Contains(name, a.skip[i]) THEN TRUE
    ELSE FALSE

\* The loop over args.skip of is_filtered_out, from pattern i on: the first
\* pattern that matches returns true, and the end of the list false.
RECURSIVE SkipLoop(_, _, _)
SkipLoop(a, name, i) ==
    IF i > Len(a.skip) THEN FALSE
    ELSE IF a.exact /\ name = a.skip[i] THEN TRUE
    ELSE IF ~a.exact /\ Contains(name, a.skip[i]) THEN TRUE
    ELSE SkipLoop(a, name, i + 1)

\* Arguments::is_filtered_out
is_filtered_out(a, t) ==
    IF a.filter_string # None /\ a.exact /\ t.name # a.filter_string[1] THEN TRUE
    ELSE IF a.filter_string # None /\ ~a.exact /\ ~Contains(t.name, a.filter_string[1]) THEN TRUE
    ELSE SkipLoop(a, t.name, 1)

\* A retain whose predicate is inverted: it keeps the filtered-out tests.
RECURSIVE Retain_Inverted(_, _)
Retain_Inverted(a, ts) ==
    IF ts = <<>> THEN <<>>
    ELSE IF ~is_filtered_out(a, Head(ts)) THEN Retain_Inverted(a, Tail(ts))
    ELSE <<Head(ts)>> \o Retain_Inverted(a, Tail(ts))

\* Vec::retain(|test| !args.is_filtered_out(test)): the kept tests, in order.
RECURSIVE Retain(_, _)
Retain(a, ts) ==
    IF ts = <<>> THEN <<>>
    ELSE IF is_filtered_out(a, Head(ts)) THEN Retain(a, Tail(ts))
    ELSE <<Head(ts)>> \o Retain(a, Tail(ts))

\* What a closure built by Test::test or Test::bench returns when it does
\* return: Passed or Measured on Ok, Failed on Err.
RunnerOutcome(t) ==
    IF t.runner = "fail" THEN "Failed"
    ELSE IF t.is_bench THEN "Measured"
    ELSE "Passed"

\* A handle_outcome that counts a Measured benchmark as passed.
HandleConclusion_MeasuredPassed(c, outcome, info) ==
    LET b == IF info.is_bench
             THEN [c EXCEPT !.num_benches = @ + 1]
             ELSE c
    IN  CASE outcome = "Passed"   -> [b EXCEPT !.num_passed = @ + 1]
          [] outcome = "Failed"   -> [b EXCEPT !.num_failed = @ + 1]
          [] outcome = "Ignored"  -> [b EXCEPT !.num_ignored = @ + 1]
          [] outcome = "Measured" -> [b EXCEPT !.num_passed = @ + 1]

\* A handle_outcome whose counts depend on the order of the outcomes: a pass
\* that comes after a failure is not counted.
HandleConclusion_OrderDependent(c, outcome, info) ==
    LET b == IF info.is_bench
             THEN [c EXCEPT !.num_benches = @ + 1]
             ELSE c
    IN  CASE outcome = "Passed"   -> IF c.num_failed > 0 THEN b
                                     ELSE [b EXCEPT !.num_passed = @ + 1]
          [] outcome = "Failed"   -> [b EXCEPT !.num_failed = @ + 1]
          [] outcome = "Ignored"  -> [b EXCEPT !.num_ignored = @ + 1]
          [] outcome = "Measured" -> b

\* The counters after handle_outcome(outcome, test, printer).
HandleConclusion(c, outcome, info) ==
    LET b == IF info.is_bench
             THEN [c EXCEPT !.num_benches = @ + 1]
             ELSE c
    IN  CASE outcome = "Passed"   -> [b EXCEPT !.num_passed = @ + 1]
          [] outcome = "Failed"   -> [b EXCEPT !.num_failed = @ + 1]
          [] outcome = "Ignored"  -> [b EXCEPT !.num_ignored = @ + 1]
          [] outcome = "Measured" -> b

\* A handle_outcome that puts the latest failure at the head of the list.
HandleFailed_Prepend(f, outcome, msg, info) ==
    IF outcome = "Failed" THEN <<[info |-> info, msg |-> msg]>> \o f ELSE f

\* The message an Outcome of the closure of t carries: failed.msg.
RunnerMsg(t) == IF t.runner = "fail" THEN t.msg ELSE None

\* What goes through the channel, and from the closure to handle_outcome:
\* (outcome, test.info), the outcome with the message of its Failed.
Message(outcome, msg, info) == [outcome |-> outcome, msg |-> msg, info |-> info]

\* failed_tests after handle_outcome(outcome, test, printer).
HandleFailed(f, outcome, msg, info) ==
    IF outcome = "Failed" THEN Append(f, [info |-> info, msg |-> msg]) ELSE f

\* The printer's calls, in the order they are made: the call, the unit it is
\* about (0 for none), and what it is given.
Ev(e, id, n, outcome, failed, c) ==
    [ev |-> e, id |-> id, n |-> n, outcome |-> outcome, failed |-> failed,
     conclusion |-> c]

EvList(n) == Ev("list", 0, n, "", <<>>, empty)

EvTitle(n) == Ev("title", 0, n, "", <<>>, empty)

EvTest(info) == Ev("test", info.id, 0, "", <<>>, empty)

EvOutcome(info, outcome) == Ev("outcome", info.id, 0, outcome, <<>>, empty)

EvFailures(failed) == Ev("failures", 0, 0, "", failed, empty)

EvSummary(c) == Ev("summary", 0, 0, "", <<>>, c)

\* The number of threads of the pool run builds on a machine with `cpus`
\* CPUs: ThreadPool::default(), whatever args.num_threads asks for.
PoolSize(a, cpus) == cpus

(***************************************************************************)
(* The inputs of run: the arguments and the list of tests.                 *)
(***************************************************************************)
\* No name filter, and the name filters a run is given: a filter string
\* (substring and exact) and skip patterns.
NoFilter == [filter_string |-> None, skip |-> <<>>, exact |-> FALSE]

RunFilters ==
    { NoFilter,
      [filter_string |-> Some(<<"a">>), skip |-> <<>>, exact |-> FALSE],
      [filter_string |-> Some(<<"a">>), skip |-> <<>>, exact |-> TRUE],
      [filter_string |-> None, skip |-> <<(<<"b">>)>>, exact |-> FALSE],
      [filter_string |-> None, skip |-> <<(<<"a">>)>>, exact |-> FALSE] }

\* --ignored, --test and --bench: none given, and every combination.
NoFlags == [ignored |-> FALSE, test |-> FALSE, bench |-> FALSE]

AllFlags == [ignored : BOOLEAN, test : BOOLEAN, bench : BOOLEAN]

ArgsOver(filters, flags, lists, threads) ==
    { [filter_string |-> f.filter_string, skip |-> f.skip, exact |-> f.exact,
       ignored |-> g.ignored, test |-> g.test, bench |-> g.bench,
       list |-> l, num_threads |-> n] :
      f \in filters, g \in flags, l \in lists, n \in threads }

\* The arguments of the runs: every name filter, every ignore policy, and
\* every worker count, each with the other two at their defaults.
RunArgs ==
    ArgsOver(RunFilters, {NoFlags}, BOOLEAN, {None, Some(1)})
    \cup ArgsOver({NoFilter}, AllFlags, BOOLEAN, {None, Some(1)})
    \cup ArgsOver({NoFilter}, {NoFlags}, {FALSE}, {None, Some(1), Some(2)})

\* The test at position i of the caller's list.
TestsAt(i) ==
    { [id |-> i, name |-> NameOf(i), is_ignored |-> g, is_bench |-> b, runner |-> r,
       msg |-> MsgOf(i)] :
      g \in BOOLEAN, b \in BOOLEAN, r \in Runners }

RECURSIVE TestLists(_)
TestLists(n) ==
    IF n = 0 THEN {<<>>}
    ELSE LET shorter == TestLists(n - 1)
         IN  shorter \cup {Append(ts, t) : ts \in {u \in shorter : Len(u) = n - 1},
                                           t \in TestsAt(n)}

\* The state at the entry of run, before any of its statements.
InitRun(a, ts) ==
    /\ args = a
    /\ input = ts
    /\ tests = ts
    /\ conclusion = empty
    /\ failed_tests = <<>>
    /\ events = <<>>
    /\ pc = "filter"
    /\ idx = 1
    /\ cur = None
    /\ pool = 0
    /\ jobs = <<>>
    /\ running = {}
    /\ channel = <<>>
    /\ taken = 0
    /\ invoked = [i \in 1..Len(ts) |-> 0]
    /\ on_worker = {}
    /\ ret = None
    /\ exit_code = None

Init ==
    \E a \in RunArgs, ts \in TestLists(MaxTests) :
        InitRun(a, ts)

(***************************************************************************)
(* run, on the calling thread.                                             *)
(***************************************************************************)
\* "Apply filtering": retain the tests that are not filtered out and count
\* the others.
ApplyFiltering ==
    /\ pc = "filter"
    /\ IF args.filter_string # None \/ args.skip # <<>>
       THEN /\ tests' = Retain(args, tests)
            /\ conclusion' = [conclusion EXCEPT
                                !.num_filtered_out = Len(tests) - Len(tests')]
       ELSE UNCHANGED <<tests, conclusion>>
    /\ pc' = "list"
    /\ UNCHANGED <<args, input, failed_tests, events, idx, cur, pool, jobs, running,
                   channel, taken, invoked, on_worker, ret, exit_code>>

\* A `--list` that would return the Conclusion of run, with the count of the
\* filtering in it.
PrintList_ReturnsConclusion ==
    /\ pc = "list"
    /\ args.list
    /\ events' = Append(events, EvList(Len(tests)))
    /\ ret' = Some(conclusion)
    /\ pc' = "returned"
    /\ UNCHANGED <<args, input, tests, conclusion, failed_tests, idx, cur, pool, jobs,
                   running, channel, taken, invoked, on_worker, exit_code>>

\* `--list`: print the list and return a dummy Conclusion.
PrintList ==
    /\ pc = "list"
    /\ args.list
    /\ events' = Append(events, EvList(Len(tests)))
    /\ ret' = Some(empty)
    /\ pc' = "returned"
    /\ UNCHANGED <<args, input, tests, conclusion, failed_tests, idx, cur, pool, jobs,
                   running, channel, taken, invoked, on_worker, exit_code>>

\* print_title(tests.len()), then the choice of the strategy.
PrintTitle ==
    /\ pc = "list"
    /\ ~args.list
    /\ events' = Append(events, EvTitle(Len(tests)))
    /\ pc' = IF args.num_threads = Some(1) THEN "seq" ELSE "pool"
    /\ idx' = 1
    /\ UNCHANGED <<args, input, tests, conclusion, failed_tests, cur, pool, jobs,
                   running, channel, taken, invoked, on_worker, ret, exit_code>>

\* A sequential loop that prints the name of a test only with its outcome.
SeqPrintTest_Late ==
    /\ pc = "seq"
    /\ idx <= Len(tests)
    /\ pc' = "seq_run"
    /\ UNCHANGED <<args, input, tests, conclusion, failed_tests, events, idx,
                   cur, pool, jobs, running, channel, taken, invoked, on_worker, ret, exit_code>>

\* Sequential loop: print_test(&test.info).
SeqPrintTest ==
    /\ pc = "seq"
    /\ idx <= Len(tests)
    /\ events' = Append(events, EvTest(Info(tests[idx])))
    /\ pc' = "seq_run"
    /\ UNCHANGED <<args, input, tests, conclusion, failed_tests, idx, cur, pool, jobs,
                   running, channel, taken, invoked, on_worker, ret, exit_code>>

\* Sequential loop: Outcome::Ignored, or the closure called on this thread.
\* A panic of the closure unwinds out of run.
SeqRunTest ==
    /\ pc = "seq_run"
    /\ LET t == tests[idx]
       IN  IF is_ignored(args, t)
           THEN /\ cur' = Some(Message("Ignored", None, Info(t)))
                /\ pc' = "seq_handle"
                /\ UNCHANGED invoked
           ELSE /\ invoked' = [invoked EXCEPT ![t.id] = @ + 1]
                /\ IF t.runner = "panic"
                   THEN /\ pc' = "panicked"
                        /\ UNCHANGED cur
                   ELSE /\ cur' = Some(Message(RunnerOutcome(t), RunnerMsg(t), Info(t)))
                        /\ pc' = "seq_handle"
    /\ UNCHANGED <<args, input, tests, conclusion, failed_tests, events, idx,
                   pool, jobs, running, channel, taken, on_worker, ret, exit_code>>

\* handle_outcome(outcome, test, printer): print_single_outcome, then the
\* counters and the list of failed tests.
HandleOutcome(next_pc) ==
    /\ events' = Append(events, EvOutcome(cur[1].info, cur[1].outcome))
    /\ conclusion' = HandleConclusion(conclusion, cur[1].outcome, cur[1].info)
    /\ failed_tests' = HandleFailed(failed_tests, cur[1].outcome, cur[1].msg, cur[1].info)
    /\ cur' = None
    /\ pc' = next_pc

\* A sequential loop that breaks out at the first Failed outcome.
SeqHandleOutcome_FailFast ==
    /\ pc = "seq_handle"
    /\ HandleOutcome(IF cur[1].outcome = "Failed" THEN "conclude" ELSE "seq")
    /\ idx' = idx + 1
    /\ UNCHANGED <<args, input, tests, pool, jobs, running, channel, taken,
                   invoked, on_worker, ret, exit_code>>

\* Sequential loop: handle_outcome(outcome, test.info, &mut printer).
SeqHandleOutcome ==
    /\ pc = "seq_handle"
    /\ HandleOutcome("seq")
    /\ idx' = idx + 1
    /\ UNCHANGED <<args, input, tests, pool, jobs, running, channel, taken,
                   invoked, on_worker, ret, exit_code>>

\* Sequential loop: the list is exhausted.
SeqDone ==
    /\ pc = "seq"
    /\ idx > Len(tests)
    /\ pc' = "conclude"
    /\ UNCHANGED <<args, input, tests, conclusion, failed_tests, events, idx,
                   cur, pool, jobs, running, channel, taken, invoked, on_worker, ret, exit_code>>

\* A dispatch loop that prints the name of a test when it dispatches it.
Dispatch_Printing ==
    /\ pc = "dispatch"
    /\ idx <= Len(tests)
    /\ events' = Append(events, EvTest(Info(tests[idx])))
    /\ LET t == tests[idx]
       IN  IF is_ignored(args, t)
           THEN /\ channel' = Append(channel, Message("Ignored", None, Info(t)))
                /\ UNCHANGED <<jobs, on_worker>>
           ELSE /\ jobs' = Append(jobs, t)
                /\ on_worker' = on_worker \cup {t.id}
                /\ UNCHANGED channel
    /\ idx' = idx + 1
    /\ UNCHANGED <<args, input, tests, conclusion, failed_tests, pc,
                   cur, pool, running, taken, invoked, ret, exit_code>>

\* The senders alive if run dropped its own `sender` at the end of the
\* dispatch loop.
LiveSenders_DroppedAfterDispatch ==
    (IF pc = "dispatch" THEN 1 ELSE 0) + Len(jobs) + Cardinality(running)

\* The senders of the channel that are alive: `sender` of run, until the end
\* of the block of the concurrent strategy, and the clone each job holds
\* until it has sent or unwound.
LiveSenders ==
    (IF pc \in {"dispatch", "consume", "consume_handle"} THEN 1 ELSE 0)
    + Len(jobs) + Cardinality(running)

\* ThreadPool::default() and mpsc::channel(): the pool gets a thread for each
\* CPU the machine turns out to have.
CreatePool ==
    /\ pc = "pool"
    /\ \E cpus \in 1..MaxCpus : pool' = PoolSize(args, cpus)
    /\ pc' = "dispatch"
    /\ UNCHANGED <<args, input, tests, conclusion, failed_tests, events, idx,
                   cur, jobs, running, channel, taken, invoked, on_worker, ret, exit_code>>

\* A dispatch loop over a channel that holds one message: the send of an
\* Ignored waits until the message before it is received.
Dispatch_BoundedChannel ==
    /\ pc = "dispatch"
    /\ idx <= Len(tests)
    /\ LET t == tests[idx]
       IN  IF is_ignored(args, t)
           THEN /\ Len(channel) < 1
                /\ channel' = Append(channel, Message("Ignored", None, Info(t)))
                /\ UNCHANGED <<jobs, on_worker>>
           ELSE /\ jobs' = Append(jobs, t)
                /\ on_worker' = on_worker \cup {t.id}
                /\ UNCHANGED channel
    /\ idx' = idx + 1
    /\ UNCHANGED <<args, input, tests, conclusion, failed_tests, events, pc,
                   cur, pool, running, taken, invoked, ret, exit_code>>

\* Dispatch loop: an ignored test is sent to the channel as Ignored, any
\* other is handed to the pool with a clone of the sender.
Dispatch ==
    /\ pc = "dispatch"
    /\ idx <= Len(tests)
    /\ LET t == tests[idx]
       IN  IF is_ignored(args, t)
           THEN /\ channel' = Append(channel, Message("Ignored", None, Info(t)))
                /\ UNCHANGED <<jobs, on_worker>>
           ELSE /\ jobs' = Append(jobs, t)
                /\ on_worker' = on_worker \cup {t.id}
                /\ UNCHANGED channel
    /\ idx' = idx + 1
    /\ UNCHANGED <<args, input, tests, conclusion, failed_tests, events, pc,
                   cur, pool, running, taken, invoked, ret, exit_code>>

\* Dispatch loop: the list is exhausted, the consumer loop starts.
DispatchDone ==
    /\ pc = "dispatch"
    /\ idx > Len(tests)
    /\ pc' = "consume"
    /\ UNCHANGED <<args, input, tests, conclusion, failed_tests, events, idx,
                   cur, pool, jobs, running, channel, taken, invoked, on_worker, ret, exit_code>>

\* Consumer loop: receiver.iter().take(num_tests) yields the next message,
\* and print_test(&test_info).
ConsumerPrintTest ==
    /\ pc = "consume"
    /\ taken < Len(tests)
    /\ channel # <<>>
    /\ cur' = Some(Head(channel))
    /\ channel' = Tail(channel)
    /\ taken' = taken + 1
    /\ events' = Append(events, EvTest(Head(channel).info))
    /\ pc' = "consume_handle"
    /\ UNCHANGED <<args, input, tests, conclusion, failed_tests, idx, pool,
                   jobs, running, invoked, on_worker, ret, exit_code>>

\* A consumer loop with an aggregation of its own, which leaves the ignored
\* units out of the counters.
ConsumerHandleOutcome_OwnAggregator ==
    /\ pc = "consume_handle"
    /\ events' = Append(events, EvOutcome(cur[1].info, cur[1].outcome))
    /\ conclusion' = IF cur[1].outcome = "Ignored" THEN conclusion
                     ELSE HandleConclusion(conclusion, cur[1].outcome, cur[1].info)
    /\ failed_tests' = HandleFailed(failed_tests, cur[1].outcome, cur[1].msg, cur[1].info)
    /\ cur' = None
    /\ pc' = "consume"
    /\ UNCHANGED <<args, input, tests, idx, pool, jobs, running, channel,
                   taken, invoked, on_worker, ret, exit_code>>

\* Consumer loop: handle_outcome(outcome, test_info, &mut printer).
ConsumerHandleOutcome ==
    /\ pc = "consume_handle"
    /\ HandleOutcome("consume")
    /\ UNCHANGED <<args, input, tests, idx, pool, jobs, running, channel,
                   taken, invoked, on_worker, ret, exit_code>>

\* A consumer loop that ends when the channel is found empty.
ConsumerDone_WhenEmpty ==
    /\ pc = "consume"
    /\ channel = <<>>
    /\ pc' = "conclude"
    /\ UNCHANGED <<args, input, tests, conclusion, failed_tests, events, idx,
                   cur, pool, jobs, running, channel, taken, invoked, on_worker, ret, exit_code>>

\* A consumer loop that waits for a first message before it looks at its
\* count.
ConsumerDone_AfterFirst ==
    /\ pc = "consume"
    /\ taken = Len(tests)
    /\ taken > 0
    /\ pc' = "conclude"
    /\ UNCHANGED <<args, input, tests, conclusion, failed_tests, events, idx,
                   cur, pool, jobs, running, channel, taken, invoked, on_worker, ret,
                   exit_code>>

\* Consumer loop: take(num_tests) has yielded num_tests messages, or the
\* iterator of the receiver has ended: the channel is empty and disconnected.
ConsumerDone ==
    /\ pc = "consume"
    /\ \/ taken = Len(tests)
       \/ channel = <<>> /\ LiveSenders = 0
    /\ pc' = "conclude"
    /\ UNCHANGED <<args, input, tests, conclusion, failed_tests, events, idx,
                   cur, pool, jobs, running, channel, taken, invoked, on_worker, ret, exit_code>>

\* print_failures if there were any, print_summary, and the return.
Conclude ==
    /\ pc = "conclude"
    /\ events' = (IF failed_tests # <<>>
                  THEN Append(events, EvFailures(failed_tests))
                  ELSE events) \o <<EvSummary(conclusion)>>
    /\ ret' = Some(conclusion)
    /\ pc' = "returned"
    /\ UNCHANGED <<args, input, tests, conclusion, failed_tests, idx, cur, pool, jobs,
                   running, channel, taken, invoked, on_worker, exit_code>>

(***************************************************************************)
(* The threads of the pool.                                                *)
(***************************************************************************)
\* A thread of the pool takes the oldest queued job and calls its closure.
WorkerStart ==
    /\ jobs # <<>>
    /\ Cardinality(running) < pool
    /\ running' = running \cup {Head(jobs)}
    /\ jobs' = Tail(jobs)
    /\ invoked' = [invoked EXCEPT ![Head(jobs).id] = @ + 1]
    /\ UNCHANGED <<args, input, tests, conclusion, failed_tests, events, pc, idx,
                   cur, pool, channel, taken, on_worker, ret, exit_code>>

\* A job that drops the outcome of its closure instead of sending it.
WorkerFinish_NoSend(t) ==
    /\ t \in running
    /\ t.runner # "panic"
    /\ running' = running \ {t}
    /\ UNCHANGED <<args, input, tests, conclusion, failed_tests, events, pc, idx,
                   cur, pool, jobs, channel, taken, invoked, on_worker, ret, exit_code>>

\* The closure returns and the job sends (outcome, test.info).
WorkerFinish(t) ==
    /\ t \in running
    /\ t.runner # "panic"
    /\ running' = running \ {t}
    /\ channel' = Append(channel, Message(RunnerOutcome(t), RunnerMsg(t), Info(t)))
    /\ UNCHANGED <<args, input, tests, conclusion, failed_tests, events, pc, idx,
                   cur, pool, jobs, taken, invoked, on_worker, ret, exit_code>>

\* A panic of a closure that would take the calling thread down with it.
WorkerPanic_Propagates(t) ==
    /\ t \in running
    /\ t.runner = "panic"
    /\ running' = running \ {t}
    /\ pc' = "panicked"
    /\ UNCHANGED <<args, input, tests, conclusion, failed_tests, events, idx,
                   cur, pool, jobs, channel, taken, invoked, on_worker, ret, exit_code>>

\* The closure panics: the job unwinds without sending, its sender is
\* dropped, and the pool replaces the thread.
WorkerPanic(t) ==
    /\ t \in running
    /\ t.runner = "panic"
    /\ running' = running \ {t}
    /\ UNCHANGED <<args, input, tests, conclusion, failed_tests, events, pc, idx,
                   cur, pool, jobs, channel, taken, invoked, on_worker, ret, exit_code>>

(***************************************************************************)
(* The caller, with the Conclusion run returned.                           *)
(***************************************************************************)
\* conclusion.exit(): the process exits, with the code of exit.
Exit ==
    /\ pc = "returned"
    /\ exit_code' = exit(ret[1])
    /\ pc' = "exited"
    /\ UNCHANGED <<args, input, tests, conclusion, failed_tests, events, idx, cur, pool,
                   jobs, running, channel, taken, invoked, on_worker, ret>>

\* conclusion.exit_if_failed(): the process exits when a test failed, and
\* the caller goes on when none did.
ExitIfFailed ==
    /\ pc = "returned"
    /\ exit_code' = exit_if_failed(ret[1])
    /\ pc' = IF exit_code' # None THEN "exited" ELSE "continued"
    /\ UNCHANGED <<args, input, tests, conclusion, failed_tests, events, idx, cur, pool,
                   jobs, running, channel, taken, invoked, on_worker, ret>>

Next ==
    \/ ApplyFiltering
    \/ PrintList
    \/ PrintTitle
    \/ SeqPrintTest
    \/ SeqRunTest
    \/ SeqHandleOutcome
    \/ SeqDone
    \/ CreatePool
    \/ Dispatch
    \/ DispatchDone
    \/ ConsumerPrintTest
    \/ ConsumerHandleOutcome
    \/ ConsumerDone
    \/ Conclude
    \/ WorkerStart
    \/ \E t \in running : WorkerFinish(t)
    \/ \E t \in running : WorkerPanic(t)
    \/ Exit
    \/ ExitIfFailed

Spec == Init /\ [][Next]_vars

\* Name filters over every name and pattern up to MaxName characters, and
\* every list of up to MaxSkip skip patterns.
RECURSIVE SkipLists(_)
SkipLists(n) ==
    IF n = 0 THEN {<<>>}
    ELSE LET shorter == SkipLists(n - 1)
         IN  shorter \cup {Append(ps, p) : ps \in {q \in shorter : Len(q) = n - 1},
                                           p \in StringsUpTo(MaxName)}

AllFilters ==
    { [filter_string |-> f, skip |-> ps, exact |-> e] :
      f \in {None} \cup {Some(p) : p \in StringsUpTo(MaxName)},
      ps \in SkipLists(MaxSkip), e \in BOOLEAN }

\* One test of any name.
NamedTests ==
    { <<[id |-> 1, name |-> n, is_ignored |-> FALSE, is_bench |-> FALSE, runner |-> "ok",
         msg |-> MsgOf(1)]>> :
      n \in StringsUpTo(MaxName) }

FilterInit ==
    \E a \in ArgsOver(AllFilters, {NoFlags}, {FALSE}, {Some(1)}), ts \in NamedTests :
        InitRun(a, ts)

\* The filtering of run alone, over every name filter.
FilterSpec == FilterInit /\ [][ApplyFiltering]_vars

\* Runs with up to as many tests as the machine may have CPUs, so that
\* every thread of the pool can be busy at once.
PoolInit ==
    \E a \in ArgsOver({NoFilter}, {NoFlags}, BOOLEAN, {None, Some(1), Some(2)}),
       ts \in TestLists(MaxCpus) :
        InitRun(a, ts)

PoolSpec == PoolInit /\ [][Next]_vars

\* The statements of run, on the calling thread.
MainThread ==
    \/ ApplyFiltering
    \/ PrintList
    \/ PrintTitle
    \/ SeqPrintTest
    \/ SeqRunTest
    \/ SeqHandleOutcome
    \/ SeqDone
    \/ CreatePool
    \/ Dispatch
    \/ DispatchDone
    \/ ConsumerPrintTest
    \/ ConsumerHandleOutcome
    \/ ConsumerDone
    \/ Conclude

\* A closure that was called comes to its end.
WorkerEnd == \E t \in running : WorkerFinish(t) \/ WorkerPanic(t)

\* Runs of every strategy and worker count, without name filter and flags.
FairInit ==
    \E a \in ArgsOver({NoFilter}, {NoFlags}, BOOLEAN, {None, Some(1), Some(2)}),
       ts \in TestLists(MaxTests) :
        InitRun(a, ts)

\* The calling thread and the threads of the pool are scheduled fairly: a
\* thread that can take a step is not held back forever.
FairSpec ==
    /\ FairInit
    /\ [][Next]_vars
    /\ WF_vars(MainThread)
    /\ WF_vars(WorkerStart)
    /\ WF_vars(WorkerEnd)

(***************************************************************************)
(* What the claims speak of.                                               *)
(***************************************************************************)
\* The per-unit calls of the printer: print_test and print_single_outcome.
IsUnitEvent(e) == e.ev \in {"test", "outcome"}

UnitEvents == SelectSeq(events, IsUnitEvent)

\* How many times the printer was called with `e` for unit `id`.
CountEv(e, id) ==
    Cardinality({k \in 1..Len(events) : events[k].ev = e /\ events[k].id = id})

\* How many outcomes of kind `o` were printed.
NumOutcome(o) ==
    Cardinality({k \in 1..Len(events) : events[k].ev = "outcome" /\ events[k].outcome = o})

\* The ids of the units that survived filtering.
Survivors == {tests[k].id : k \in 1..Len(tests)}

Sequential == ~args.list /\ args.num_threads = Some(1)

Concurrent == ~args.list /\ args.num_threads # Some(1)

Returned == pc = "returned" /\ ~args.list

\* C1: when run returns (not in list mode) every unit that survived
\* filtering had its closure called at most once and was given to print_test
\* and to handle_outcome exactly once; the consumer loop of the concurrent
\* strategy takes exactly tests.len() messages, never more on the way and
\* never fewer at the return.
C1_ExactlyOnce ==
    /\ \A i \in 1..Len(input) : invoked[i] <= 1
    /\ taken <= Len(tests)
    /\ Returned =>
         /\ \A id \in Survivors : CountEv("test", id) = 1 /\ CountEv("outcome", id) = 1
         /\ Len(UnitEvents) = 2 * Len(tests)
         /\ Concurrent => taken = Len(tests)

C1_Witness ==
    /\ Returned
    /\ args.num_threads = None
    /\ Len(tests) = 2
    /\ taken = 2
    /\ \A id \in Survivors : invoked[id] = 1
    /\ UnitEvents[1].id = 2

\* The outcome a unit that survived filtering is to be reported with:
\* Ignored when it is ignored for the run, what its closure returns otherwise.
OutcomeOf(t) == IF is_ignored(args, t) THEN "Ignored" ELSE RunnerOutcome(t)

\* C2: in the sequential strategy the per-unit calls of the printer are, for
\* the units in the order of the list, print_test(u) then the outcome of u:
\* the name of a unit is printed before its closure is called, its outcome
\* before the name of the next unit, and no pool thread ever holds a closure.
C2_SequentialOrder ==
    Sequential =>
      /\ pool = 0 /\ jobs = <<>> /\ running = {} /\ channel = <<>> /\ on_worker = {}
      /\ Len(UnitEvents) <= 2 * Len(tests)
      /\ \A k \in 1..Len(UnitEvents) :
           LET t == tests[(k + 1) \div 2]
           IN  UnitEvents[k] = IF k % 2 = 1 THEN EvTest(Info(t))
                               ELSE EvOutcome(Info(t), OutcomeOf(t))
      /\ \A j \in 1..Len(tests) :
           /\ invoked[tests[j].id] > 0 => Len(UnitEvents) >= 2 * j - 1
           /\ (Len(UnitEvents) >= 2 * j /\ ~is_ignored(args, tests[j]))
                => invoked[tests[j].id] = 1
           /\ Len(UnitEvents) < 2 * j - 1 => invoked[tests[j].id] = 0
      /\ pc = "returned" => Len(UnitEvents) = 2 * Len(tests)

C2_Witness ==
    /\ Sequential
    /\ pc = "returned"
    /\ Len(tests) = 2
    /\ Len(UnitEvents) = 4
    /\ \E j \in 1..2 : invoked[tests[j].id] = 1
    /\ \E j \in 1..2 : is_ignored(args, tests[j])

\* C3: in the concurrent strategy the per-unit calls of the printer come in
\* adjacent pairs print_test(u), print_single_outcome(outcome of u) for the
\* same unit u, whatever the order in which the workers finish; nothing is
\* printed for a unit while the tests are dispatched.
C3_AtomicLines ==
    Concurrent =>
      /\ pc = "dispatch" => UnitEvents = <<>>
      /\ \A k \in 1..Len(UnitEvents) :
           IF k % 2 = 1
           THEN /\ UnitEvents[k].ev = "test"
                /\ UnitEvents[k].id \in Survivors
                /\ k = Len(UnitEvents) => pc = "consume_handle"
           ELSE /\ UnitEvents[k].ev = "outcome"
                /\ UnitEvents[k].id = UnitEvents[k - 1].id
                /\ UnitEvents[k].outcome = OutcomeOf(input[UnitEvents[k].id])

C3_Witness ==
    /\ Concurrent
    /\ pc = "returned"
    /\ Len(UnitEvents) = 4
    /\ pool > 1
    /\ UnitEvents[1].id = 2 /\ UnitEvents[2].outcome = "Failed"
    /\ UnitEvents[3].id = 1 /\ UnitEvents[4].outcome = "Passed"

\* No closure that run calls panics: every one of them returns an Outcome.
EveryClosureReturns ==
    \A i \in 1..Len(input) :
        (~is_filtered_out(args, input[i]) /\ ~is_ignored(args, input[i]))
            => input[i].runner # "panic"

\* run has printed the summary and returned the Conclusion.
Terminated ==
    /\ pc \in {"returned", "exited", "continued"}
    /\ events # <<>>
    /\ events[Len(events)] = EvSummary(conclusion)
    /\ ret = Some(conclusion)

\* C4: in the concurrent strategy, when every closure returns and the
\* threads are scheduled fairly, the consumer takes as many messages as
\* there are tests and run prints the summary and returns.
C4_Terminates ==
    (Concurrent /\ EveryClosureReturns) ~> (Terminated /\ taken = Len(tests))

C4_Witness ==
    /\ Concurrent
    /\ EveryClosureReturns
    /\ Terminated
    /\ taken = 2
    /\ \E id \in Survivors : invoked[id] = 1
    /\ \E id \in Survivors : is_ignored(args, input[id])

\* C5, as claimed: after a run every unit that was not filtered out counts
\* in exactly one of passed, failed and ignored, so the three add up to the
\* number of units that were not filtered out.
C5_Original ==
    Returned =>
        ret[1].num_passed + ret[1].num_failed + ret[1].num_ignored = Len(tests)

\* C5, amended: a unit counts in passed, failed or ignored according to its
\* outcome Passed, Failed or Ignored, and in none of them when its outcome
\* is Measured; after a run that is not a list run the three add up to the
\* number of units that were not filtered out and were not Measured.
C5_CountersPartition ==
    ~args.list =>
      /\ conclusion.num_passed = NumOutcome("Passed")
      /\ conclusion.num_failed = NumOutcome("Failed")
      /\ conclusion.num_ignored = NumOutcome("Ignored")
      /\ Returned =>
           /\ ret = Some(conclusion)
           /\ \A id \in Survivors : CountEv("outcome", id) = 1
           /\ ret[1].num_passed + ret[1].num_failed + ret[1].num_ignored
                = Len(tests) - NumOutcome("Measured")

C5_Witness ==
    /\ Returned
    /\ NumOutcome("Measured") = 1
    /\ NumOutcome("Failed") = 1
    /\ ret[1].num_passed + ret[1].num_failed + ret[1].num_ignored = 1

\* The outcomes printed for benchmarks that ran and did not fail.
BenchesRun ==
    {k \in 1..Len(events) :
        /\ events[k].ev = "outcome"
        /\ input[events[k].id].is_bench
        /\ events[k].outcome \notin {"Ignored", "Failed"}}

\* C6, as claimed: num_benches counts the benchmarks whose outcome is
\* neither Ignored nor Failed, and no other unit.
C6_Original ==
    ~args.list => conclusion.num_benches = Cardinality(BenchesRun)

\* Arguments::is_ignored as the claim words it.
IgnoredForRun(t) ==
    \/ t.is_ignored /\ ~args.ignored
    \/ t.is_bench /\ args.test
    \/ ~t.is_bench /\ args.bench

\* C7: a unit that is ignored for the run never has its closure called, is
\* never handed to the pool and is reported Ignored; a unit that is not is
\* never reported Ignored, is handed to the pool by the dispatch loop and has
\* had its closure called when run returns.
C7_IgnoredNeverRun ==
    ~args.list =>
      \A k \in 1..Len(tests) :
        LET t == tests[k]
            reported == {e \in 1..Len(events) :
                            events[e].ev = "outcome" /\ events[e].id = t.id}
            sent == {m \in 1..Len(channel) : channel[m].info.id = t.id}
        IN  IF IgnoredForRun(t)
            THEN /\ invoked[t.id] = 0
                 /\ t.id \notin on_worker
                 /\ t \notin running
                 /\ \A j \in 1..Len(jobs) : jobs[j].id # t.id
                 /\ \A e \in reported : events[e].outcome = "Ignored"
                 /\ \A m \in sent : channel[m].outcome = "Ignored"
                 /\ (pc = "dispatch" /\ idx = k + 1) => sent # {}
            ELSE /\ \A e \in reported : events[e].outcome # "Ignored"
                 /\ \A m \in sent : channel[m].outcome # "Ignored"
                 /\ (Concurrent /\ pc \notin {"filter", "list", "pool"} /\ idx > k)
                      => t.id \in on_worker
                 /\ Returned => invoked[t.id] = 1

C7_Witness ==
    /\ Concurrent
    /\ pc = "returned"
    /\ Len(tests) = 2
    /\ args.ignored /\ args.test
    /\ \E k \in 1..2 : IgnoredForRun(tests[k]) /\ CountEv("outcome", tests[k].id) = 1
    /\ \E k \in 1..2 : tests[k].is_ignored /\ ~IgnoredForRun(tests[k])
                         /\ invoked[tests[k].id] = 1

\* C8, as claimed: when a worker count N > 1 is asked for, no more than N
\* closures are ever running at the same time.
C8_Original ==
    (Concurrent /\ args.num_threads # None /\ args.num_threads[1] > 1)
        => Cardinality(running) <= args.num_threads[1]

\* The rule of the filter as the claim words it: the filter string rejects
\* the name, or some skip pattern matches it.
RejectedByFilter(a, name) ==
    /\ a.filter_string # None
    /\ IF a.exact THEN name # a.filter_string[1]
       ELSE ~Contains(name, a.filter_string[1])

MatchedBySkip(a, name) ==
    \E j \in 1..Len(a.skip) :
        IF a.exact THEN name = a.skip[j] ELSE Contains(name, a.skip[j])

\* The orders a list can be put in.
Reorderings(ps) ==
    LET n == Len(ps)
        bij == Permutations(1..n)
    IN  {[i \in 1..n |-> ps[f[i]]] : f \in bij}

\* C9: is_filtered_out is true exactly when the filter string rejects the
\* name or some skip pattern matches it, false for every unit when there is
\* neither a filter nor a skip pattern, and the same for every order of the
\* skip patterns; the filtering of run keeps a test exactly when it is false.
C9_FilterRule ==
    \A i \in 1..Len(input) :
        LET t == input[i]
            out == RejectedByFilter(args, t.name) \/ MatchedBySkip(args, t.name)
            filtered == is_filtered_out(args, t)
        IN  /\ filtered = out
            /\ (args.filter_string = None /\ args.skip = <<>>) => ~filtered
            /\ \A ps \in Reorderings(args.skip) :
                 is_filtered_out([args EXCEPT !.skip = ps], t) = filtered
            /\ pc = "list" => (out <=> t.id \notin Survivors)

C9_Witness ==
    /\ pc = "list"
    /\ args.filter_string # None
    /\ ~args.exact
    /\ Len(args.skip) = 2
    /\ ~RejectedByFilter(args, input[1].name)
    /\ ~Contains(input[1].name, args.skip[1])
    /\ Contains(input[1].name, args.skip[2])
    /\ tests = <<>>
    /\ conclusion.num_filtered_out = 1

\* The positions of the units that is_filtered_out rejects.
FilteredOut == {i \in 1..Len(input) : is_filtered_out(args, input[i])}

\* C10: in a run that is not a list run, once the filtering is done a unit
\* that is_filtered_out rejects is in no list, queue or message, its closure
\* is never called and the printer is never called for it; the units kept
\* are the others, in their order; num_filtered_out is the number of
\* rejected units, in the Conclusion returned too, the other counters count
\* printed outcomes only, and the title gives the number of units kept.
C10_FilteredNeverRun ==
    (~args.list /\ pc # "filter") =>
      LET out == FilteredOut
          printed == Cardinality({k \in 1..Len(events) : events[k].ev = "outcome"})
      IN
      /\ \A i \in out :
           /\ invoked[i] = 0
           /\ i \notin Survivors
           /\ i \notin on_worker
           /\ \A k \in 1..Len(events) : events[k].id # i
           /\ \A j \in 1..Len(jobs) : jobs[j].id # i
           /\ \A t \in running : t.id # i
           /\ \A m \in 1..Len(channel) : channel[m].info.id # i
           /\ cur # None => cur[1].info.id # i
      /\ Survivors = (1..Len(input)) \ out
      /\ \A k \in 1..Len(tests) : tests[k] = input[tests[k].id]
      /\ \A k \in 1..(Len(tests) - 1) : tests[k].id < tests[k + 1].id
      /\ conclusion.num_filtered_out = Cardinality(out)
      /\ conclusion.num_passed + conclusion.num_failed + conclusion.num_ignored
           <= printed
      /\ conclusion.num_benches
           <= printed
      /\ pc # "list" => events[1] = EvTitle(Len(input) - Cardinality(out))
      /\ pc = "returned" => ret[1].num_filtered_out = Cardinality(out)

C10_Witness ==
    /\ Returned
    /\ Len(input) = 2
    /\ Cardinality(FilteredOut) = 1
    /\ ret[1].num_filtered_out = 1
    /\ events[1] = EvTitle(1)
    /\ Len(UnitEvents) = 2
    /\ \E id \in Survivors : invoked[id] = 1

\* The phase of the output a call of the printer belongs to: the title, the
\* per-unit lines, the failures, the summary.
PhaseOf(e) ==
    CASE e.ev = "title" -> 1
      [] e.ev \in {"test", "outcome"} -> 2
      [] e.ev = "failures" -> 3
      [] e.ev = "summary" -> 4
      [] OTHER -> 0

NumEv(e) == Cardinality({k \in 1..Len(events) : events[k].ev = e})

\* Every unit that survived filtering has been reported: one print_test and
\* one outcome each, the closure called once unless the unit is ignored.
AllReported ==
    /\ Len(UnitEvents) = 2 * Len(tests)
    /\ \A id \in Survivors :
         /\ CountEv("test", id) = 1
         /\ CountEv("outcome", id) = 1
         /\ invoked[id] = IF is_ignored(args, input[id]) THEN 0 ELSE 1

\* The order of the calls of the printer in a run that is not a list run.
PhaseOrder ==
    ~args.list =>
      /\ \A k \in 1..(Len(events) - 1) : PhaseOf(events[k]) <= PhaseOf(events[k + 1])
      /\ events # <<>> => events[1].ev = "title"
      /\ NumEv("title") <= 1 /\ NumEv("failures") <= 1 /\ NumEv("summary") <= 1
      /\ NumEv("failures") + NumEv("summary") > 0 => AllReported
      /\ pc = "seq" /\ idx <= Len(tests) => ENABLED SeqPrintTest
      /\ pc = "panicked" => tests[idx].runner = "panic"
      /\ ret # None =>
           /\ NumEv("summary") = 1
           /\ events[Len(events)].ev = "summary"

\* C11: a Failed outcome never stops the run.  The printer is called in the
\* order title, per-unit lines, failures (if any), summary; the failures and
\* the summary come only when every surviving unit was run or resolved as
\* Ignored and reported; the summary is printed once, before run returns; and
\* in both strategies, once a Failed outcome is reported and no closure
\* panics, run goes on to report every unit, print the summary and return.
C11_FailedNeverStops ==
    /\ []PhaseOrder
    /\ (~args.list /\ NumOutcome("Failed") > 0 /\ EveryClosureReturns)
         ~> (Terminated /\ AllReported)

C11_Witness ==
    /\ Returned
    /\ Len(tests) = 2
    /\ events[3].ev = "outcome" /\ events[3].outcome = "Failed"
    /\ events[5].ev = "outcome" /\ events[5].outcome = "Passed"
    /\ events[6].ev = "failures"
    /\ events[7].ev = "summary"
    /\ Len(events) = 7
    /\ ret = Some(conclusion)

IsFailedLine(e) == e.ev = "outcome" /\ e.outcome = "Failed"

\* The FAILED lines, in the order they were printed.
FailedLines == SelectSeq(events, IsFailedLine)

\* What print_failures was called with, if it was.
FailuresGiven == SelectSeq(events, LAMBDA e : e.ev = "failures")

\* C12: print_failures is called if and only if some outcome was Failed, and
\* only when every unit is reported; the list holds one entry for each
\* Failed outcome, the metadata of the unit with the message of its Failed
\* (or none), in the order of the FAILED lines, so as many as num_failed.
C12_FailureBlock ==
    ~args.list =>
      /\ Len(failed_tests) = Len(FailedLines)
      /\ \A k \in 1..Len(failed_tests) :
           /\ failed_tests[k].info.id = FailedLines[k].id
           /\ failed_tests[k].info = Info(input[FailedLines[k].id])
           /\ failed_tests[k].msg = input[FailedLines[k].id].msg
      /\ Len(failed_tests) = conclusion.num_failed
      /\ \A k \in 1..Len(FailuresGiven) :
           /\ AllReported
           /\ NumOutcome("Failed") > 0
           /\ FailuresGiven[k].failed = failed_tests
      /\ ret # None => (Len(FailuresGiven) = 1 <=> NumOutcome("Failed") > 0)
      /\ ret # None => Len(failed_tests) = ret[1].num_failed

C12_Witness ==
    /\ Returned
    /\ Concurrent
    /\ Len(FailuresGiven) = 1
    /\ Len(FailuresGiven[1].failed) = 2
    /\ FailuresGiven[1].failed[1].info.id = 2
    /\ FailuresGiven[1].failed[1].msg = None
    /\ FailuresGiven[1].failed[2].info.id = 1
    /\ FailuresGiven[1].failed[2].msg = Some("boom")
    /\ ret[1].num_failed = 2

\* The closure of the i-th unit is called in this run, and panics.
Panics(i) ==
    /\ i \in Survivors
    /\ ~is_ignored(args, input[i])
    /\ input[i].runner = "panic"

\* The i-th unit has its one line, with the outcome of its own closure.
ReportedOnce(i) ==
    /\ CountEv("test", i) = 1
    /\ CountEv("outcome", i) = 1
    /\ \A k \in 1..Len(events) :
         (events[k].ev = "outcome" /\ events[k].id = i)
            => events[k].outcome = OutcomeOf(input[i])

\* In the concurrent strategy the calling thread never unwinds, no line is
\* printed for a unit whose closure panics, and no unit has two lines or a
\* line with an outcome that is not its own.
PanicContained ==
    Concurrent =>
      /\ pc # "panicked"
      /\ \A k \in 1..Len(events) :
           events[k].ev = "outcome" =>
             /\ ~Panics(events[k].id)
             /\ events[k].outcome = OutcomeOf(input[events[k].id])
      /\ \A i \in Survivors : CountEv("outcome", i) <= 1 /\ CountEv("test", i) <= 1

\* C13: in the concurrent strategy a panic in the closure of one unit stays
\* on its pool thread: the calling thread does not unwind, and every other
\* surviving unit is reported, once, with the outcome of its own closure.
C13_PanicIsolated ==
    /\ []PanicContained
    /\ (Concurrent /\ pc # "filter" /\ \E j \in Survivors : Panics(j))
         ~> (\A i \in Survivors : ~Panics(i) => ReportedOnce(i))

C13_Witness ==
    /\ Concurrent
    /\ pool = 1
    /\ Len(tests) = 2
    /\ Panics(1)
    /\ invoked[1] = 1
    /\ running = {}
    /\ ~Panics(2) /\ ~is_ignored(args, input[2])
    /\ ReportedOnce(2)
    /\ pc = "consume"
    /\ CountEv("outcome", 1) = 0

\* C14: with args.list, run calls no closure, hands nothing to a pool or a
\* channel, calls the printer for the list only (no title, no per-unit line,
\* no failures, no summary), handles no outcome, and returns
\* Conclusion::empty(): all five counters zero, num_filtered_out too even
\* when the filtering removed units.
C14_ListMode ==
    args.list =>
      /\ \A i \in 1..Len(input) : invoked[i] = 0
      /\ on_worker = {} /\ jobs = <<>> /\ running = {} /\ channel = <<>>
      /\ cur = None /\ taken = 0 /\ pool = 0
      /\ pc \in {"filter", "list", "returned", "exited", "continued"}
      /\ \A k \in 1..Len(events) : events[k] = EvList(Len(tests))
      /\ Len(events) <= 1
      /\ failed_tests = <<>>
      /\ conclusion.num_passed = 0 /\ conclusion.num_failed = 0
      /\ conclusion.num_ignored = 0 /\ conclusion.num_benches = 0
      /\ ret # None =>
           /\ Len(events) = 1
           /\ ret[1].num_filtered_out = 0 /\ ret[1].num_passed = 0
           /\ ret[1].num_failed = 0 /\ ret[1].num_ignored = 0
           /\ ret[1].num_benches = 0

C14_Witness ==
    /\ args.list
    /\ pc = "returned"
    /\ Len(input) = 2
    /\ Len(tests) = 1
    /\ conclusion.num_filtered_out = 1
    /\ events = <<EvList(1)>>
    /\ ret = Some(empty)
    /\ \E i \in 1..Len(input) : input[i].runner = "fail" /\ ~input[i].is_ignored

\* The positions of the units of ts that the arguments a keep.
Kept(a, ts) == {i \in 1..Len(ts) : ~is_filtered_out(a, ts[i])}

\* The outcome of the unit t under the arguments a, when its closure returns.
OutcomeUnder(a, t) == IF is_ignored(a, t) THEN "Ignored" ELSE RunnerOutcome(t)

\* How many of the kept units of ts have the outcome o.
CountKept(a, ts, o) == Cardinality({i \in Kept(a, ts) : OutcomeUnder(a, ts[i]) = o})

\* The counters as a function of the arguments and the list alone: no
\* schedule, no order of completion, no earlier run in it.
CountersOf(a, ts) ==
    IF a.list THEN empty
    ELSE [num_filtered_out |-> Len(ts) - Cardinality(Kept(a, ts)),
          num_passed |-> CountKept(a, ts, "Passed"),
          num_failed |-> CountKept(a, ts, "Failed"),
          num_ignored |-> CountKept(a, ts, "Ignored"),
          num_benches |-> Cardinality({i \in Kept(a, ts) : ts[i].is_bench})]

\* C15: the Conclusion run returns is a function of the arguments and of the
\* list of (deterministic) units: every run that returns, in whatever order
\* the pool threads start and complete, returns the same five counters, so
\* any two runs of the same arguments and list return identical counters.
C15_Deterministic ==
    ret # None => ret[1] = CountersOf(args, input)

C15_Witness ==
    /\ Returned
    /\ Concurrent
    /\ Len(tests) = 2
    /\ events[2].ev = "test" /\ events[2].id = 2
    /\ events[3].ev = "outcome" /\ events[3].outcome = "Passed"
    /\ events[5].ev = "outcome" /\ events[5].id = 1 /\ events[5].outcome = "Failed"
    /\ on_worker = {1, 2}
    /\ ret[1] = CountersOf(args, input)

\* C16: has_failed is num_failed > 0, so on the Conclusion of a run it holds
\* exactly when some outcome was Failed, whatever was Ignored or Measured;
\* exit ends the process with 101 then and with 0 otherwise, and
\* exit_if_failed ends it with 101 then and returns otherwise.
C16_ExitCodes ==
    /\ ret # None =>
         /\ has_failed(ret[1]) <=> ret[1].num_failed > 0
         /\ has_failed(ret[1]) <=> NumOutcome("Failed") > 0
         /\ exit(ret[1]) = IF NumOutcome("Failed") > 0 THEN Some(101) ELSE Some(0)
         /\ exit_if_failed(ret[1]) = IF NumOutcome("Failed") > 0 THEN Some(101) ELSE None
    /\ pc = "exited" =>
         /\ exit_code \in {Some(101), Some(0)}
         /\ exit_code = Some(101) <=> NumOutcome("Failed") > 0
    /\ pc = "continued" =>
         /\ exit_code = None
         /\ NumOutcome("Failed") = 0
         /\ ~has_failed(ret[1])
    /\ pc \notin {"exited", "continued"} => exit_code = None

C16_Witness ==
    /\ pc = "exited"
    /\ exit_code = Some(101)
    /\ NumOutcome("Failed") = 1
    /\ NumOutcome("Ignored") = 1
    /\ has_failed(ret[1])

\* A run with ignored and measured units and no failure, after which
\* exit_if_failed returned.
C16_WitnessContinued ==
    /\ pc = "continued"
    /\ NumOutcome("Ignored") = 1
    /\ NumOutcome("Measured") = 1

\* Conclusion::empty() but for num_filtered_out.
empty_but(n) == [empty EXCEPT !.num_filtered_out = n]

\* No unit is left once the filtering is done, in a run that is not a list
\* run.
NoneLeft == ~args.list /\ pc # "filter" /\ tests = <<>>

\* C17: when the filtering leaves no unit, in the sequential and in the
\* concurrent strategy, run prints the title with 0, no per-unit line and no
\* failures, then the summary, and returns: the calling thread always has a
\* next step until the return, and the Conclusion has passed, failed, ignored
\* and benches at 0 and has_failed false.
C17_ZeroUnits ==
    NoneLeft =>
      /\ pc \notin {"returned", "exited", "continued"} => ENABLED MainThread
      /\ pc \notin {"seq_run", "seq_handle", "consume_handle", "panicked"}
      /\ events # <<>> => events[1] = EvTitle(0)
      /\ \A k \in 1..Len(events) : events[k].ev \in {"title", "summary"}
      /\ Len(events) <= 2
      /\ jobs = <<>> /\ running = {} /\ channel = <<>> /\ taken = 0
      /\ ret # None =>
           /\ events = <<EvTitle(0), EvSummary(ret[1])>>
           /\ ret[1].num_passed = 0 /\ ret[1].num_failed = 0
           /\ ret[1].num_ignored = 0 /\ ret[1].num_benches = 0
           /\ ret[1].num_filtered_out = Len(input)
           /\ ~has_failed(ret[1])

C17_Witness ==
    /\ NoneLeft
    /\ Concurrent
    /\ pool > 0
    /\ Len(input) = 2
    /\ pc = "returned"
    /\ events = <<EvTitle(0), EvSummary(empty_but(2))>>
    /\ ~has_failed(ret[1])

\* The same in the sequential strategy, with an empty list to start with.
C17_WitnessSequential ==
    /\ NoneLeft
    /\ Sequential
    /\ input = <<>>
    /\ pc = "returned"
    /\ ret = Some(empty)

\* What the sequential strategy computes: handle_outcome applied to the kept
\* units one after the other, in the order of the list.
RECURSIVE SeqConclusion(_, _, _)
SeqConclusion(a, ts, c) ==
    IF ts = <<>> THEN c
    ELSE SeqConclusion(a, Tail(ts),
                       HandleConclusion(c, OutcomeUnder(a, Head(ts)), Info(Head(ts))))

RECURSIVE SeqFailed(_, _, _)
SeqFailed(a, ts, f) ==
    IF ts = <<>> THEN f
    ELSE SeqFailed(a, Tail(ts),
                   HandleFailed(f, OutcomeUnder(a, Head(ts)),
                                IF is_ignored(a, Head(ts)) THEN None ELSE RunnerMsg(Head(ts)),
                                Info(Head(ts))))

\* The elements of a sequence, as a set.
Range(s) == {s[k] : k \in 1..Len(s)}

\* How many per-unit lines give the outcome o for the unit id.
NumLines(id, o) ==
    Cardinality({k \in 1..Len(events) : events[k].ev = "outcome" /\ events[k].id = id
                                         /\ events[k].outcome = o})

Outcomes == {"Passed", "Failed", "Ignored", "Measured"}

\* C18: a run that returns gives, whatever args.num_threads is, the
\* counters the sequential pass over the kept units gives, one per-unit line
\* for each kept unit with the outcome of that pass (the same multiset of
\* (unit, outcome) lines), and to print_failures the set of failed units of
\* that pass: the two strategies differ by the order only.
C18_StrategiesAgree ==
    Returned =>
      LET kept == Retain(args, input)
          start == [empty EXCEPT !.num_filtered_out = Len(input) - Len(kept)]
      IN  /\ ret[1] = SeqConclusion(args, kept, start)
          /\ \A id \in 1..Len(input), o \in Outcomes :
               NumLines(id, o) = IF \E k \in 1..Len(kept) :
                                       kept[k].id = id /\ OutcomeUnder(args, kept[k]) = o
                                 THEN 1 ELSE 0
          /\ Range(failed_tests) = Range(SeqFailed(args, kept, <<>>))
          /\ \A k \in 1..Len(FailuresGiven) :
               Range(FailuresGiven[k].failed) = Range(SeqFailed(args, kept, <<>>))
          /\ Sequential => failed_tests = SeqFailed(args, kept, <<>>)

C18_Witness ==
    /\ Returned
    /\ Concurrent
    /\ Len(tests) = 2
    /\ events[3] = EvOutcome(Info(input[2]), "Failed")
    /\ events[5] = EvOutcome(Info(input[1]), "Measured")
    /\ ret[1] = SeqConclusion(args, input, empty)
    /\ ret[1].num_failed = 1 /\ ret[1].num_benches = 1
    /\ Len(FailuresGiven) = 1

\* The ids of the Ignored messages that went into the channel, oldest first:
\* those already printed, the one being handled, those still in the channel.
IsIgnoredLine(e) == e.ev = "outcome" /\ e.outcome = "Ignored"

IsIgnoredMessage(m) == m.outcome = "Ignored"

IgnoredSent ==
    LET printed == SelectSeq(events, IsIgnoredLine)
        handled == IF pc = "consume_handle" THEN SelectSeq(cur, IsIgnoredMessage) ELSE <<>>
        waiting == SelectSeq(channel, IsIgnoredMessage)
    IN  [k \in 1..Len(printed) |-> printed[k].id]
        \o [k \in 1..Len(handled) |-> handled[k].info.id]
        \o [k \in 1..Len(waiting) |-> waiting[k].info.id]

\* C19: in the concurrent strategy the dispatch loop always has its next
\* step, whatever is in the channel and whatever the pool threads are doing
\* (no send and no execute waits); the consumer loop starts after it: no
\* message is received and no per-unit line printed before every unit was
\* handed to the pool or sent as Ignored; and the Ignored messages are in the
\* channel in the order of the list.
C19_DispatchFirst ==
    Concurrent =>
      LET sent == IgnoredSent
          dispatched == on_worker \cup {sent[k] : k \in 1..Len(sent)}
      IN  /\ pc = "dispatch" =>
               /\ idx <= Len(tests) => ENABLED Dispatch
               /\ idx > Len(tests) => ENABLED DispatchDone
               /\ \A k \in 1..Len(tests) : tests[k].id \in dispatched <=> k < idx
          /\ pc \in {"list", "pool", "dispatch"} =>
               /\ UnitEvents = <<>>
               /\ taken = 0
               /\ cur = None
          /\ (UnitEvents # <<>> \/ taken > 0 \/ pc \in {"consume", "consume_handle"}) =>
               /\ idx = Len(tests) + 1
               /\ Survivors \subseteq dispatched
          /\ \A k \in 1..(Len(sent) - 1) : sent[k] < sent[k + 1]
          /\ \A k \in 1..Len(sent) : is_ignored(args, input[sent[k]])

C19_Witness ==
    /\ Concurrent
    /\ pc = "dispatch"
    /\ idx = 3
    /\ Len(tests) = 2
    /\ is_ignored(args, tests[1]) /\ is_ignored(args, tests[2])
    /\ Len(channel) = 2
    /\ channel[1].info.id = 1 /\ channel[2].info.id = 2
    /\ UnitEvents = <<>>

\* The dispatch loop at its end with a job run to completion already and
\* nothing received yet.
C19_WitnessWorkerAhead ==
    /\ Concurrent
    /\ pc = "dispatch"
    /\ idx = 3
    /\ Len(channel) = 2
    /\ channel[1].outcome = "Passed" /\ channel[1].info.id = 1
    /\ channel[2].outcome = "Ignored" /\ channel[2].info.id = 2
    /\ taken = 0

\* The consumer loop is waiting for a message that no thread is left to send.
ConsumerStuck ==
    /\ pc = "consume"
    /\ taken < Len(tests)
    /\ channel = <<>>
    /\ jobs = <<>>
    /\ running = {}
    /\ ret = None
    /\ NumEv("summary") = 0

\* In the concurrent strategy: a sender is alive as long as the consumer loop
\* runs, the loop is left only with tests.len() messages taken, and a run in
\* which a closure panics has no summary and no return.
ChannelStaysOpen ==
    Concurrent =>
      /\ pc \in {"consume", "consume_handle"} => LiveSenders >= 1
      /\ pc \in {"conclude", "returned", "exited", "continued"} => taken = Len(tests)
      /\ (pc # "filter" /\ \E j \in Survivors : Panics(j)) =>
           /\ pc \notin {"conclude", "returned", "exited", "continued"}
           /\ ret = None
           /\ NumEv("summary") = 0 /\ NumEv("failures") = 0

\* C20: in the concurrent strategy the channel is never disconnected while
\* the consumer loop runs, `sender` of run being alive until the end of the
\* block; the loop ends only by taking tests.len() messages; and when the
\* closure of a unit panics, so that its job ends without sending, the
\* consumer ends up waiting forever: no summary, no return.
C20_ConsumerWaitsForever ==
    /\ []ChannelStaysOpen
    /\ (Concurrent /\ pc # "filter" /\ \E j \in Survivors : Panics(j)) ~> []ConsumerStuck

C20_Witness ==
    /\ Concurrent
    /\ Len(tests) = 2
    /\ Panics(2)
    /\ invoked[2] = 1
    /\ taken = 1
    /\ ConsumerStuck
    /\ LiveSenders = 1

====
